---- MODULE Spec2Model ----
(***************************************************************************)
(* A model of BookmarkServer.py: a threaded HTTP server (ThreadHTTPServer) *)
(* whose handlers (Shortener.do_GET, Shortener.do_POST) share the module   *)
(* level dictionary `memory`, and whose POST handler calls CheckURI before *)
(* it stores a mapping.                                                    *)
(*                                                                         *)
(* Strings are sequences of code points (97 is "a", 37 is "%", ...), so    *)
(* that percent-decoding, form parsing, sorting and formatting are          *)
(* computed, not assumed.                                                  *)
(***************************************************************************)
EXTENDS Integers, Sequences, FiniteSets, TLC

\* Handler threads that may be in flight at once, and requests served in all.
NumHandlers == 2
MaxRequests == 3

Handlers == 1..NumHandlers

----------------------------------------------------------------------------
\* String helpers: str.replace, str.split, str.partition, str.join, unquote.

RECURSIVE Concat(_)
Concat(ss) ==
    IF ss = <<>> THEN <<>> ELSE Head(ss) \o Concat(Tail(ss))

RECURSIVE IndexOf(_, _, _)
\* the least index >= i of s holding c, or 0
IndexOf(s, c, i) ==
    IF i > Len(s) THEN 0
    ELSE IF s[i] = c THEN i
    ELSE IndexOf(s, c, i + 1)

RECURSIVE Split(_, _)
\* s.split(chr(c))
Split(s, c) ==
    LET i == IndexOf(s, c, 1)
    IN  IF i = 0 THEN <<s>>
        ELSE <<SubSeq(s, 1, i - 1)>> \o Split(SubSeq(s, i + 1, Len(s)), c)

RECURSIVE Join(_, _)
\* chr-sequence sep .join(ss)
Join(sep, ss) ==
    IF ss = <<>> THEN <<>>
    ELSE IF Len(ss) = 1 THEN ss[1]
    ELSE ss[1] \o sep \o Join(sep, Tail(ss))

IsHex(c) == c \in (48..57) \cup (65..70) \cup (97..102)

HexVal(c) ==
    IF c \in 48..57 THEN c - 48
    ELSE IF c \in 65..70 THEN c - 55
    ELSE c - 87

\* one escaped byte decoded as UTF-8 with errors='replace': an isolated byte
\* above 127 is no valid UTF-8 and becomes U+FFFD
DecodeByte(b) == IF b < 128 THEN b ELSE 65533

RECURSIVE Unquote(_)
\* urllib.parse.unquote: "%XX" with two hex digits is replaced by the
\* character it encodes, any other "%" is kept
Unquote(s) ==
    IF s = <<>> THEN <<>>
    ELSE IF s[1] = 37 /\ Len(s) >= 3 /\ IsHex(s[2]) /\ IsHex(s[3])
         THEN <<DecodeByte(16 * HexVal(s[2]) + HexVal(s[3]))>>
              \o Unquote(SubSeq(s, 4, Len(s)))
         ELSE <<s[1]>> \o Unquote(Tail(s))

\* s.replace('+', ' ')
PlusToSpace(s) == [i \in 1..Len(s) |-> IF s[i] = 43 THEN 32 ELSE s[i]]

RECURSIVE ParseQsl(_)
\* urllib.parse.parse_qsl over the "&"-separated fields: a field without "="
\* or with a blank value is dropped, name and value are decoded
ParseQsl(fields) ==
    IF fields = <<>> THEN <<>>
    ELSE LET nv == Head(fields)
             i  == IndexOf(nv, 61, 1)
             rest == ParseQsl(Tail(fields))
         IN  IF nv = <<>> \/ i = 0 \/ i = Len(nv) THEN rest
             ELSE <<[name  |-> Unquote(PlusToSpace(SubSeq(nv, 1, i - 1))),
                     value |-> Unquote(PlusToSpace(SubSeq(nv, i + 1, Len(nv))))]>>
                  \o rest

RECURSIVE ValuesOf(_, _)
ValuesOf(pairs, n) ==
    IF pairs = <<>> THEN <<>>
    ELSE (IF Head(pairs).name = n THEN <<Head(pairs).value>> ELSE <<>>)
         \o ValuesOf(Tail(pairs), n)

\* urllib.parse.parse_qs: the dictionary from each name to the list of its
\* values, in the order of the body
ParseQs(body) ==
    LET pairs == ParseQsl(Split(body, 38))
    IN  [n \in {pairs[i].name : i \in 1..Len(pairs)} |-> ValuesOf(pairs, n)]

RECURSIVE StrLess(_, _)
\* str < str: lexicographic by code point
StrLess(s, t) ==
    IF t = <<>> THEN FALSE
    ELSE IF s = <<>> THEN TRUE
    ELSE IF s[1] # t[1] THEN s[1] < t[1]
    ELSE StrLess(Tail(s), Tail(t))

RECURSIVE SortedReverse(_)
SortedReverse(S) ==
    IF S = {} THEN <<>>
    ELSE LET m == CHOOSE x \in S : \A y \in S \ {x} : StrLess(y, x)
         IN  <<m>> \o SortedReverse(S \ {m})

RECURSIVE Sorted(_)
\* sorted(keys)
Sorted(S) ==
    IF S = {} THEN <<>>
    ELSE LET m == CHOOSE x \in S : \A y \in S \ {x} : StrLess(x, y)
         IN  <<m>> \o Sorted(S \ {m})

----------------------------------------------------------------------------
\* The strings the requests are built from.

LONGURI   == <<108, 111, 110, 103, 117, 114, 105>>   \* "longuri"
SHORTNAME == <<115, 104, 111, 114, 116, 110, 97, 109, 101>>   \* "shortname"

UriX    == <<104, 116, 116, 112, 58, 47, 47, 120>>   \* "http://x"
UriY    == <<104, 116, 116, 112, 58, 47, 47, 121>>   \* "http://y"
UriBare == <<120>>   \* "x", no scheme
AliasA  == <<97>>    \* "a"
AliasB  == <<98>>    \* "b"

Field(n, v) == n \o <<61>> \o v

\* self.path of the GET requests: "/", "/a", "/%62", "/%6"
Paths ==
    { <<47>>, <<47, 97>>, <<47, 37, 54, 50>>, <<47, 37, 54>> }

\* the form bodies the clients send
Bodies ==
    { \* longuri=http://x&shortname=a
      Join(<<38>>, <<Field(LONGURI, UriX), Field(SHORTNAME, AliasA)>>),
      \* longuri=http%3A%2F%2Fy&shortname=%61
      Join(<<38>>, <<Field(LONGURI, <<104, 116, 116, 112, 37, 51, 65, 37, 50, 70,
                                      37, 50, 70, 121>>),
                     Field(SHORTNAME, <<37, 54, 49>>)>>),
      \* longuri=http://x&longuri=http://y&shortname=b&shortname=a
      Join(<<38>>, <<Field(LONGURI, UriX), Field(LONGURI, UriY),
                     Field(SHORTNAME, AliasB), Field(SHORTNAME, AliasA)>>),
      \* longuri=x&shortname=a
      Join(<<38>>, <<Field(LONGURI, UriBare), Field(SHORTNAME, AliasA)>>),
      \* longuri=http://x
      Field(LONGURI, UriX),
      \* longuri=&shortname=a
      Join(<<38>>, <<Field(LONGURI, <<>>), Field(SHORTNAME, AliasA)>>) }

----------------------------------------------------------------------------
\* The outbound GET of requests.get(url=uri, timeout=2.0), as the network and
\* the library decide it: a completed response with a status code, or an
\* exception.  A uri without a scheme never leaves the library.

HasScheme(uri) == IndexOf(uri, 58, 1) > 1

StatusCodes == {200, 204, 500}
Transport   == {"Timeout", "ConnectionError"}

\* timeout=2.0, in seconds
CheckTimeout == 2

NeverTimesOut(waited) == FALSE

\* whether requests.get gives up after having waited so long
TimesOut(waited) == waited >= CheckTimeout

\* What the call can end with after `waited` seconds without an answer: an
\* answer or a failed connection while the server can still be heard, the
\* Timeout once the wait is over.
Outcomes(uri, waited) ==
    IF ~HasScheme(uri)
    THEN [kind : {"exception"}, code : {0}, type : {"MissingSchema"}]
    ELSE (IF waited < CheckTimeout
          THEN [kind : {"status"}, code : StatusCodes, type : {"none"}]
               \cup [kind : {"exception"}, code : {0}, type : {"ConnectionError"}]
          ELSE {})
         \cup
         (IF TimesOut(waited)
          THEN [kind : {"exception"}, code : {0}, type : {"Timeout"}]
          ELSE {})

CheckURIOk(outcome) ==
    IF outcome.kind = "exception"
    THEN IF outcome.type = "MissingSchema"
         THEN [raised |-> "none", value |-> FALSE]
         ELSE [raised |-> outcome.type, value |-> FALSE]
    ELSE [raised |-> "none", value |-> outcome.code < 400]

\* CheckURI: what the call gives its caller for an outcome of the GET.
\* raised = "none": it returned value; otherwise the exception left it.
CheckURI(outcome) ==
    IF outcome.kind = "exception"
    THEN IF outcome.type = "MissingSchema"
         THEN [raised |-> "none", value |-> FALSE]
         ELSE [raised |-> outcome.type, value |-> FALSE]
    ELSE [raised |-> "none", value |-> outcome.code = 200]

----------------------------------------------------------------------------
\* State.

VARIABLES
    memory,     \* the module's dictionary: short name -> long URI
    pc,         \* where each handler thread stands
    request,    \* per handler: the request it serves (method, path, body)
    local,      \* per handler: name, longuri, shortname, keys, known
    resp,       \* per handler: the responses sent for its request, in order
    exc,        \* per handler: the exception that ended its request, or "none"
    log,        \* history: the writes applied to memory, in order
    wrote,      \* history, per handler: the index in log of its write, or 0
    held,       \* history, per handler: the URIs memory held for its name
                \* from its lookup on
    outbound,   \* history, per handler: the outcomes of its outbound GETs
    served,     \* history: the number of requests started
    since,      \* history, per handler: the number of writes applied when
                \* its listing began, while it lists
    waited      \* per handler: the seconds its outbound GET has waited

vars == <<memory, pc, request, local, resp, exc, log, wrote, held, outbound,
          served, since, waited>>

NoRequest == [method |-> "none", path |-> <<>>, body |-> <<>>]
NoLocal   == [name |-> <<>>, longuri |-> <<>>, shortname |-> <<>>,
              keys |-> <<>>, known |-> <<>>]

\* one response: the status line, the Location header (<<>> when not sent),
\* and the body or error message as a format string with its argument
Response(status, location, fmt, arg) ==
    [status |-> status, location |-> location, fmt |-> fmt, arg |-> arg]

Init ==
    /\ memory = << >>
    /\ pc = [t \in Handlers |-> "idle"]
    /\ request = [t \in Handlers |-> NoRequest]
    /\ local = [t \in Handlers |-> NoLocal]
    /\ resp = [t \in Handlers |-> <<>>]
    /\ exc = [t \in Handlers |-> "none"]
    /\ log = <<>>
    /\ wrote = [t \in Handlers |-> 0]
    /\ held = [t \in Handlers |-> {}]
    /\ outbound = [t \in Handlers |-> <<>>]
    /\ served = 0
    /\ since = [t \in Handlers |-> 0]
    /\ waited = [t \in Handlers |-> 0]

\* the request of a handler is over, or it has none yet
Over(t) == pc[t] \in {"idle", "done"}

FreeSerial(t) ==
    /\ \A s \in Handlers : Over(s)
    /\ t = 1
    /\ served < MaxRequests

\* ThreadingMixIn starts a thread per request.  The threads are
\* interchangeable, so the next request takes the first slot whose request
\* is over.
Free(t) ==
    /\ Over(t)
    /\ \A s \in Handlers : s < t => ~Over(s)
    /\ served < MaxRequests

LookupAlways(m, name) == TRUE

\* name in memory
Lookup(m, name) == name \in DOMAIN m

InsertIfAbsent(m, shortname, longuri) ==
    [k \in DOMAIN m \cup {shortname} |-> IF k \in DOMAIN m THEN m[k] ELSE longuri]

InsertOnly(m, shortname, longuri) == [k \in {shortname} |-> longuri]

InsertNothing(m, shortname, longuri) == m

\* memory[shortname] = longuri: one dictionary item assignment, which the
\* interpreter applies as a whole with respect to the other threads
Insert(m, shortname, longuri) ==
    [k \in DOMAIN m \cup {shortname} |-> IF k = shortname THEN longuri ELSE m[k]]

----------------------------------------------------------------------------
\* Shortener.do_GET

\* "{} : {}".format(key, memory[key])
ListingLine(key, uri) == key \o <<32, 58, 32>> \o uri

MemoryAfterPop(m, name) == [k \in DOMAIN m \ {name} |-> m[k]]

\* what do_GET leaves of memory when it redirects: it only reads
MemoryAfterGet(m, name) == m

RedirectToName(m, name) == name

\* the Location header of the redirect of a known name
RedirectLocation(m, name) == m[name]

\* The request arrives; the path is decoded and the first look at memory is
\* taken: `name in memory` for a name, sorted(memory.keys()) for the root.
GetStart(t) ==
    /\ Free(t)
    /\ \E path \in Paths :
         LET name == Unquote(Tail(path))
         IN  /\ request' = [request EXCEPT ![t] =
                               [method |-> "GET", path |-> path, body |-> <<>>]]
             /\ IF name # <<>>
                THEN IF Lookup(memory, name)
                     THEN /\ pc' = [pc EXCEPT ![t] = "get_redirect"]
                          /\ resp' = [resp EXCEPT ![t] = <<>>]
                          /\ local' = [local EXCEPT ![t] =
                                          [NoLocal EXCEPT !.name = name]]
                          /\ held' = [held EXCEPT ![t] =
                                         IF name \in DOMAIN memory
                                         THEN {memory[name]} ELSE {}]
                     ELSE /\ pc' = [pc EXCEPT ![t] = "done"]
                          /\ resp' = [resp EXCEPT ![t] =
                                <<Response(404, <<>>, "I don't know '{}'.", name)>>]
                          /\ local' = [local EXCEPT ![t] =
                                          [NoLocal EXCEPT !.name = name]]
                          /\ held' = [held EXCEPT ![t] = {}]
                ELSE LET keys == Sorted(DOMAIN memory)
                     IN  /\ pc' = [pc EXCEPT ![t] =
                                      IF keys = <<>> THEN "done" ELSE "get_list"]
                         /\ resp' = [resp EXCEPT ![t] =
                                <<Response(200, <<>>,
                                           IF keys = <<>> THEN "form" ELSE "",
                                           <<>>)>>]
                         /\ local' = [local EXCEPT ![t] =
                                         [NoLocal EXCEPT !.keys = keys]]
                         /\ held' = [held EXCEPT ![t] = {}]
             /\ since' = [since EXCEPT ![t] =
                             IF name = <<>> /\ memory # << >> THEN Len(log) ELSE 0]
    /\ exc' = [exc EXCEPT ![t] = "none"]
    /\ wrote' = [wrote EXCEPT ![t] = 0]
    /\ outbound' = [outbound EXCEPT ![t] = <<>>]
    /\ served' = served + 1
    /\ UNCHANGED <<memory, log, waited>>

\* send_response(303) ... send_header('Location', memory[name]) ... end_headers()
GetRedirect(t) ==
    /\ pc[t] = "get_redirect"
    /\ IF local[t].name \in DOMAIN memory
       THEN /\ resp' = [resp EXCEPT ![t] =
                 <<Response(303, RedirectLocation(memory, local[t].name), "", <<>>)>>]
            /\ exc' = exc
       ELSE /\ resp' = resp
            /\ exc' = [exc EXCEPT ![t] = "KeyError"]
    /\ memory' = MemoryAfterGet(memory, local[t].name)
    /\ pc' = [pc EXCEPT ![t] = "done"]
    /\ UNCHANGED <<request, local, log, wrote, held, outbound, served, since, waited>>

\* One step of the generator of the listing: memory[key] is read for the next
\* key of the sorted keys; after the last key the page is written.
GetList(t) ==
    /\ pc[t] = "get_list"
    /\ LET key == local[t].keys[Len(local[t].known) + 1]
       IN  IF key \in DOMAIN memory
           THEN LET known == Append(local[t].known, ListingLine(key, memory[key]))
                    last  == Len(known) = Len(local[t].keys)
                IN  /\ local' = [local EXCEPT ![t].known = known]
                    /\ pc' = [pc EXCEPT ![t] = IF last THEN "done" ELSE "get_list"]
                    /\ resp' = [resp EXCEPT ![t] =
                          IF last
                          THEN <<Response(200, <<>>, "form", Join(<<10>>, known))>>
                          ELSE resp[t]]
                    /\ since' = [since EXCEPT ![t] = IF last THEN 0 ELSE since[t]]
                    /\ exc' = exc
           ELSE /\ exc' = [exc EXCEPT ![t] = "KeyError"]
                /\ pc' = [pc EXCEPT ![t] = "done"]
                /\ since' = [since EXCEPT ![t] = 0]
                /\ UNCHANGED <<local, resp>>
    /\ UNCHANGED <<memory, request, log, wrote, held, outbound, served, waited>>

----------------------------------------------------------------------------
\* Shortener.do_POST

expected_params == <<LONGURI, SHORTNAME>>

MissingParamsReversed(params) ==
    SelectSeq(<<SHORTNAME, LONGURI>>, LAMBDA p : p \notin DOMAIN params)

\* [p for p in expected_params if p not in params]
MissingParams(params) ==
    SelectSeq(expected_params, LAMBDA p : p \notin DOMAIN params)

\* ', '.join('"' + x + '"' for x in missing_params)
QuotedList(missing) ==
    Join(<<44, 32>>, [i \in 1..Len(missing) |-> <<34>> \o missing[i] \o <<34>>])

\* what the handler sends when it finds fields missing
MissingResponse(missing) ==
    IF missing # <<>>
    THEN <<Response(400, <<>>, "Required parameters missing: {}", QuotedList(missing))>>
    ELSE <<>>

LastValue(params, field) == params[field][Len(params[field])]

\* params[field][0]
FirstValue(params, field) == params[field][1]

\* The request arrives: the body is read up to Content-length, parsed, the
\* missing fields are answered 400 by send_error, which returns, and the two
\* fields are read: params[field] of an absent field raises KeyError.
PostStart(t) ==
    /\ Free(t)
    /\ \E sent \in Bodies : \E length \in {0, Len(sent)} :
         LET body    == SubSeq(sent, 1, length)
             params  == ParseQs(body)
             missing == MissingParams(params)
         IN  /\ request' = [request EXCEPT ![t] =
                               [method |-> "POST", path |-> <<47>>, body |-> body]]
             /\ resp' = [resp EXCEPT ![t] = MissingResponse(missing)]
             /\ IF LONGURI \in DOMAIN params /\ SHORTNAME \in DOMAIN params
                THEN /\ pc' = [pc EXCEPT ![t] = "post_check"]
                     /\ exc' = [exc EXCEPT ![t] = "none"]
                     /\ local' = [local EXCEPT ![t] =
                           [NoLocal EXCEPT !.longuri = FirstValue(params, LONGURI),
                                           !.shortname = FirstValue(params, SHORTNAME)]]
                ELSE /\ pc' = [pc EXCEPT ![t] = "done"]
                     /\ exc' = [exc EXCEPT ![t] = "KeyError"]
                     /\ local' = [local EXCEPT ![t] = NoLocal]
    /\ wrote' = [wrote EXCEPT ![t] = 0]
    /\ held' = [held EXCEPT ![t] = {}]
    /\ outbound' = [outbound EXCEPT ![t] = <<>>]
    /\ served' = served + 1
    /\ UNCHANGED <<memory, log, since, waited>>

StoresUnchecked(checked) == TRUE

\* whether do_POST stores the mapping, given what CheckURI returned
Stores(checked) == checked

RetryTransport(outcome) == outcome.type \in Transport

\* whether the outbound GET is made again after an outcome: CheckURI calls
\* requests.get once and do_POST calls CheckURI once
Retry(outcome) == FALSE

\* A second of waiting for the answer of the outbound GET.
Tick(t) ==
    /\ pc[t] = "post_check"
    /\ HasScheme(local[t].longuri)
    /\ waited[t] < CheckTimeout
    /\ waited' = [waited EXCEPT ![t] = waited[t] + 1]
    /\ UNCHANGED <<memory, pc, request, local, resp, exc, log, wrote, held,
                   outbound, served, since>>

\* CheckURI(longuri) returns or raises; on True the mapping is stored, on
\* False the 404 is sent, and an exception ends the handler.
PostCheck(t) ==
    /\ pc[t] = "post_check"
    /\ waited' = [waited EXCEPT ![t] = 0]
    /\ \E outcome \in Outcomes(local[t].longuri, waited[t]) :
         LET r == CheckURI(outcome)
             shortname == local[t].shortname
             longuri   == local[t].longuri
         IN  /\ outbound' = [outbound EXCEPT ![t] =
                                Append(outbound[t], [uri |-> longuri, outcome |-> outcome])]
             /\ IF Retry(outcome)
                THEN UNCHANGED <<memory, pc, resp, exc, log, wrote, held>>
                ELSE IF r.raised # "none"
                THEN /\ exc' = [exc EXCEPT ![t] = r.raised]
                     /\ pc' = [pc EXCEPT ![t] = "done"]
                     /\ UNCHANGED <<memory, resp, log, wrote, held>>
                ELSE IF Stores(r.value)
                THEN /\ memory' = Insert(memory, shortname, longuri)
                     /\ log' = Append(log, [alias |-> shortname, uri |-> longuri,
                                            checked |-> r.value])
                     /\ wrote' = [wrote EXCEPT ![t] = Len(log) + 1]
                     /\ held' = [h \in Handlers |->
                                   IF pc[h] = "get_redirect" /\ local[h].name = shortname
                                   THEN held[h] \cup {memory'[shortname]}
                                   ELSE held[h]]
                     /\ pc' = [pc EXCEPT ![t] = "post_redirect"]
                     /\ UNCHANGED <<resp, exc>>
                ELSE /\ resp' = [resp EXCEPT ![t] = Append(resp[t],
                           Response(404, <<>>, "Bad URI provided: {}", longuri))]
                     /\ pc' = [pc EXCEPT ![t] = "done"]
                     /\ UNCHANGED <<memory, exc, log, wrote, held>>
    /\ UNCHANGED <<request, local, served, since>>

\* send_response(303) ... send_header('Location', '/') ... end_headers()
PostRedirect(t) ==
    /\ pc[t] = "post_redirect"
    /\ resp' = [resp EXCEPT ![t] = Append(resp[t], Response(303, <<47>>, "", <<>>))]
    /\ pc' = [pc EXCEPT ![t] = "done"]
    /\ UNCHANGED <<memory, request, local, exc, log, wrote, held, outbound,
                   served, since, waited>>

----------------------------------------------------------------------------

Next ==
    \E t \in Handlers :
        \/ GetStart(t)
        \/ GetRedirect(t)
        \/ GetList(t)
        \/ PostStart(t)
        \/ Tick(t)
        \/ PostCheck(t)
        \/ PostRedirect(t)

Spec == Init /\ [][Next]_vars

\* The server with one mapping stored by an earlier POST whose thread has
\* ended.
InitListing ==
    /\ memory = [k \in {AliasA} |-> UriX]
    /\ log = <<[alias |-> AliasA, uri |-> UriX, checked |-> TRUE]>>
    /\ pc = [t \in Handlers |-> "idle"]
    /\ request = [t \in Handlers |-> NoRequest]
    /\ local = [t \in Handlers |-> NoLocal]
    /\ resp = [t \in Handlers |-> <<>>]
    /\ exc = [t \in Handlers |-> "none"]
    /\ wrote = [t \in Handlers |-> 0]
    /\ held = [t \in Handlers |-> {}]
    /\ outbound = [t \in Handlers |-> <<>>]
    /\ served = 0
    /\ since = [t \in Handlers |-> 0]
    /\ waited = [t \in Handlers |-> 0]

SpecListing == InitListing /\ [][Next]_vars

\* The thread of a POST is scheduled, time passes, and the outbound call
\* ends when it can.
SpecFair ==
    /\ Spec
    /\ \A t \in Handlers :
          /\ WF_vars(Tick(t))
          /\ WF_vars(PostCheck(t))
          /\ WF_vars(PostRedirect(t))

----------------------------------------------------------------------------
\* What the properties speak of.

Statuses(t) == [i \in 1..Len(resp[t]) |-> resp[t][i].status]

IsPost(t) == request[t].method = "POST"
IsGet(t)  == request[t].method = "GET"

\* the names and values of the body of the request of t, in the order sent
PairsOf ==
    [b \in Bodies \cup {<<>>} |-> ParseQsl(Split(b, 38))]

Pairs(t) == PairsOf[request[t].body]

Carries(t, field) == \E i \in 1..Len(Pairs(t)) : Pairs(t)[i].name = field

\* the first value the body gives for a field it carries
FirstSent(t, field) ==
    LET i == CHOOSE k \in 1..Len(Pairs(t)) :
                 /\ Pairs(t)[k].name = field
                 /\ \A j \in 1..(k - 1) : Pairs(t)[j].name # field
    IN  Pairs(t)[i].value

\* the outcome of the outbound GET of the request of t, once it has one
Checked(t) == outbound[t] # <<>>
Outcome(t) == outbound[t][1].outcome

\* the alias a GET asks for
AskedName(t) == Unquote(Tail(request[t].path))

Inserted == {log[i].alias : i \in 1..Len(log)}

\* the last write applied for an alias
LastWrite(a) ==
    log[CHOOSE i \in 1..Len(log) :
            /\ log[i].alias = a
            /\ \A j \in (i + 1)..Len(log) : log[j].alias # a]

----------------------------------------------------------------------------
\* C1: every entry of the store was written by a POST handler whose
\* CheckURI of that same uri returned True; nothing else creates an entry.
C1_EntriesWereChecked ==
    \A a \in DOMAIN memory :
        \E i \in 1..Len(log) :
            /\ log[i].alias = a
            /\ log[i].uri = memory[a]
            /\ log[i].checked = TRUE

\* an entry exists, while another POST whose check failed has ended
C1_Witness ==
    /\ memory # << >>
    /\ \E t \in Handlers :
          /\ IsPost(t) /\ pc[t] = "done" /\ Checked(t)
          /\ Outcome(t).code # 200
          /\ wrote[t] = 0

\* C2: a POST with both fields whose long URI is not reachable (a non-200
\* status, or a timeout) leaves the store as it was and is answered 404.
C2_UnreachableAnswered404 ==
    \A t \in Handlers :
        ( /\ IsPost(t) /\ pc[t] = "done" /\ Checked(t)
          /\ \/ Outcome(t).kind = "status" /\ Outcome(t).code # 200
             \/ Outcome(t).type = "Timeout" )
        => (wrote[t] = 0 /\ Statuses(t) = <<404>>)

\* C3: a POST with both fields whose long URI answers 200 ends with the
\* store mapping the first shortname to the first longuri, unless a later
\* write for that alias was applied, and is answered 303 with Location "/".
C3_ReachableStoredAndRedirected ==
    \A t \in Handlers :
        ( /\ IsPost(t) /\ pc[t] = "done"
          /\ Carries(t, LONGURI) /\ Carries(t, SHORTNAME)
          /\ Checked(t) /\ Outcome(t).kind = "status" /\ Outcome(t).code = 200 )
        => LET a == FirstSent(t, SHORTNAME)
               u == FirstSent(t, LONGURI)
           IN  /\ resp[t] = <<Response(303, <<47>>, "", <<>>)>>
               /\ wrote[t] \in 1..Len(log)
               /\ log[wrote[t]].alias = a
               /\ log[wrote[t]].uri = u
               /\ a \in DOMAIN memory
               /\ \/ memory[a] = u
                  \/ \E j \in (wrote[t] + 1)..Len(log) : log[j].alias = a

\* a POST sending two values of each field has ended after a 200
C3_Witness ==
    \E t \in Handlers :
        /\ IsPost(t) /\ pc[t] = "done"
        /\ Checked(t) /\ Outcome(t).code = 200
        /\ Len(Pairs(t)) = 4
        /\ memory[AliasB] = UriX

\* the message of the 400 for each set of missing fields
MissingNames(noLong, noShort) ==
    IF noLong /\ noShort
    THEN <<34>> \o LONGURI \o <<34, 44, 32, 34>> \o SHORTNAME \o <<34>>
    ELSE IF noLong THEN <<34>> \o LONGURI \o <<34>>
    ELSE <<34>> \o SHORTNAME \o <<34>>

\* C4: a POST whose body lacks longuri, shortname or both is answered 400
\* with a message naming exactly the missing fields, longuri before
\* shortname, and writes nothing to the store.
C4_MissingFieldsAnswered400 ==
    \A t \in Handlers :
        ( /\ IsPost(t)
          /\ ~Carries(t, LONGURI) \/ ~Carries(t, SHORTNAME) )
        => /\ resp[t] = <<Response(400, <<>>, "Required parameters missing: {}",
                             MissingNames(~Carries(t, LONGURI), ~Carries(t, SHORTNAME)))>>
           /\ wrote[t] = 0

\* a POST without any field, one without longuri only and one without
\* shortname only have been answered
C4_Witness ==
    /\ \E t \in Handlers :
          IsPost(t) /\ ~Carries(t, LONGURI) /\ ~Carries(t, SHORTNAME)
    /\ \E t \in Handlers :
          /\ IsPost(t) /\ Carries(t, LONGURI) /\ ~Carries(t, SHORTNAME)
          /\ Statuses(t) = <<400>>

\* C5: a POST answered 400 for its missing fields stops there: it does not
\* read the fields, and its request ends without an error.
C5_StopsAfter400 ==
    \A t \in Handlers :
        (IsPost(t) /\ \E i \in 1..Len(resp[t]) : resp[t][i].status = 400)
        => exc[t] = "none"

\* C6: CheckURI never raises: whatever the outcome of the outbound GET, no
\* exception of the check reaches the handler.
C6_CheckNeverRaises ==
    \A t \in Handlers :
        (IsPost(t) /\ Checked(t))
        => /\ exc[t] = "none"
           /\ Outcome(t).kind = "exception" => (wrote[t] = 0 /\ pc[t] = "done")

\* C7: a GET for a name that memory held at the lookup is answered 303, with
\* a URI that memory held for that name during the request as its Location.
C7_RedirectsToHeldUri ==
    \A t \in Handlers :
        (IsGet(t) /\ pc[t] = "done" /\ AskedName(t) # <<>> /\ held[t] # {})
        => /\ Len(resp[t]) = 1
           /\ resp[t][1].status = 303
           /\ resp[t][1].location \in held[t]
           /\ resp[t][1].location # <<>>
           /\ exc[t] = "none"

\* a GET whose name was written again between its lookup and its redirect
C7_Witness ==
    \E t \in Handlers :
        /\ IsGet(t) /\ pc[t] = "done"
        /\ Cardinality(held[t]) = 2
        /\ Statuses(t) = <<303>>

\* C8: a name no POST has inserted is not in the store, and a GET for it is
\* answered 404 with a body naming it.
C8_NeverInsertedIs404 ==
    /\ \A a \in DOMAIN memory : a \in Inserted
    /\ \A t \in Handlers :
          (IsGet(t) /\ pc[t] = "done" /\ AskedName(t) # <<>>
              /\ AskedName(t) \notin Inserted)
          => resp[t] = <<Response(404, <<>>, "I don't know '{}'.", AskedName(t))>>

\* a GET for "b" has been answered while only "a" was ever inserted
C8_Witness ==
    \E t \in Handlers :
        /\ IsGet(t) /\ pc[t] = "done"
        /\ AskedName(t) = AliasB
        /\ Inserted = {AliasA}

\* C9: the store holds, for each alias ever written, the URI of the write
\* applied last for it; an earlier value is overwritten.
C9_LastWriterWins ==
    /\ DOMAIN memory = Inserted
    /\ \A a \in Inserted : memory[a] = LastWrite(a).uri

\* an alias has been written twice, with different URIs
C9_Witness ==
    \E i, j \in 1..Len(log) :
        i < j /\ log[i].alias = log[j].alias /\ log[i].uri # log[j].uri

\* C10: writes of handlers for pairwise distinct aliases are all kept: each
\* alias written once is in the store with the URI written.
C10_NoLostUpdates ==
    \A i \in 1..Len(log) :
        (\A j \in 1..Len(log) : j # i => log[j].alias # log[i].alias)
        => /\ log[i].alias \in DOMAIN memory
           /\ memory[log[i].alias] = log[i].uri

\* two handlers in flight at once have both written, to different aliases
C10_Witness ==
    \E t, s \in Handlers :
        /\ pc[t] = "post_redirect" /\ pc[s] = "post_redirect"
        /\ local[t].shortname # local[s].shortname
        /\ Len(log) = 2

----------------------------------------------------------------------------
\* The page of a GET for the root.

IsRoot(t) == IsGet(t) /\ AskedName(t) = <<>>

\* the lines of the listing a finished root GET has written
ListedLines(t) ==
    IF resp[t][1].arg = <<>> THEN <<>> ELSE Split(resp[t][1].arg, 10)

\* the alias of a line: what stands before the first space
ListedAlias(line) == SubSeq(line, 1, IndexOf(line, 32, 1) - 1)

\* C11: the listing of GET "/" shows each alias at most once, in strictly
\* ascending alias order, each line being "alias : uri" of a written mapping.
C11_ListingSorted ==
    \A t \in Handlers :
        (IsRoot(t) /\ pc[t] = "done" /\ exc[t] = "none")
        => LET lines == ListedLines(t)
           IN  /\ resp[t][1].fmt = "form"
               /\ \A i \in 1..Len(lines) :
                     \E j \in 1..Len(log) :
                         lines[i] = log[j].alias \o <<32, 58, 32>> \o log[j].uri
               /\ \A i \in 1..(Len(lines) - 1) :
                     StrLess(ListedAlias(lines[i]), ListedAlias(lines[i + 1]))

\* a listing of two lines has been written
C11_Witness ==
    \E t \in Handlers :
        /\ IsRoot(t) /\ pc[t] = "done"
        /\ Len(ListedLines(t)) = 2
        /\ ListedAlias(ListedLines(t)[1]) = AliasA

RECURSIVE StoreAt(_)
\* the store after the first k writes
StoreAt(k) ==
    IF k = 0 THEN << >>
    ELSE LET m == StoreAt(k - 1)
         IN  [a \in DOMAIN m \cup {log[k].alias} |->
                 IF a = log[k].alias THEN log[k].uri ELSE m[a]]

\* the listing of a store taken at one instant
ListingOf(m) ==
    LET keys == Sorted(DOMAIN m)
    IN  Join(<<10>>, [i \in 1..Len(keys) |->
                         keys[i] \o <<32, 58, 32>> \o m[keys[i]]])

\* C12: the listing a GET "/" writes is the content of the store at one
\* instant between the beginning of its listing and its end.
C12_ListingIsSnapshot ==
    [][ \A t \in Handlers :
          (pc[t] = "get_list" /\ pc'[t] = "done" /\ exc'[t] = "none")
          => \E k \in since[t]..Len(log) :
                 resp'[t][1].arg = ListingOf(StoreAt(k)) ]_vars

\* C13: CheckURI returns True only for a completed GET with status 200, and
\* False for every other status: only after a 200 does the handler store,
\* and after any other status it answers 404.
C13_TrueOnlyFor200 ==
    \A t \in Handlers :
        (IsPost(t) /\ Checked(t))
        => /\ wrote[t] # 0
                => (Outcome(t).kind = "status" /\ Outcome(t).code = 200)
           /\ (Outcome(t).kind = "status" /\ Outcome(t).code = 200)
                => (wrote[t] # 0 /\ log[wrote[t]].checked = TRUE)
           /\ (Outcome(t).kind = "status" /\ Outcome(t).code # 200)
                => (wrote[t] = 0 /\ Statuses(t) = <<404>> /\ exc[t] = "none")

\* a POST whose URI answered 204 has been refused
C13_Witness ==
    \E t \in Handlers :
        /\ IsPost(t) /\ Checked(t)
        /\ Outcome(t).code = 204
        /\ Statuses(t) = <<404>>

\* C14: an alias once in the store is in it in every later state.
C14_NeverRemoved ==
    [][ \A a \in DOMAIN memory : a \in DOMAIN memory' ]_vars

\* a second alias has been stored beside the first
C14_Witness ==
    /\ Cardinality(DOMAIN memory) = 2
    /\ Len(log) = 2

\* C15: every request that is over has been sent exactly one response.
C15_ExactlyOneResponse ==
    \A t \in Handlers : pc[t] = "done" => Len(resp[t]) = 1

\* a step of the handler t while it serves a GET
GetStep(t) ==
    \/ Free(t) /\ served' = served + 1 /\ request'[t].method = "GET"
    \/ /\ IsGet(t) /\ ~Over(t)
       /\ <<pc[t], local[t], resp[t], exc[t]>> # <<pc'[t], local'[t], resp'[t], exc'[t]>>

\* C16: a GET for "/" answers 200, and no GET makes an outbound GET or
\* changes the store.
C16_GetIsReadOnly ==
    /\ [](\A t \in Handlers :
             IsGet(t) => /\ outbound[t] = <<>>
                         /\ wrote[t] = 0
                         /\ AskedName(t) = <<>>
                              => (resp[t] # <<>> /\ resp[t][1].status = 200))
    /\ [][ \A t \in Handlers :
             GetStep(t) => (memory' = memory /\ log' = log /\ outbound'[t] = <<>>) ]_vars

\* a redirect and a page have been served
C16_Witness ==
    /\ \E t \in Handlers : IsRoot(t) /\ pc[t] = "done"
    /\ \E t \in Handlers : IsGet(t) /\ pc[t] = "done" /\ Statuses(t) = <<303>>

\* C17: a POST carrying both fields makes exactly one outbound GET, whatever
\* its outcome; the check is not made again.
C17_OneOutboundGet ==
    \A t \in Handlers :
        IsPost(t)
        => /\ Len(outbound[t]) <= 1
           /\ pc[t] = "post_check" => outbound[t] = <<>>
           /\ (Carries(t, LONGURI) /\ Carries(t, SHORTNAME) /\ pc[t] # "post_check")
                => (Len(outbound[t]) = 1 /\ outbound[t][1].uri = FirstSent(t, LONGURI))

\* a POST whose outbound GET timed out is over
C17_Witness ==
    \E t \in Handlers :
        /\ IsPost(t) /\ pc[t] = "done" /\ Checked(t)
        /\ Outcome(t).type = "Timeout"

\* C18: while a POST waits in its check, every other handler in flight can
\* take its next step, and a new request can be taken.
C18_StalledCheckBlocksOnlyItself ==
    \A t \in Handlers :
        pc[t] = "post_check"
        => /\ \A s \in Handlers \ {t} :
                 /\ pc[s] = "get_redirect" => ENABLED GetRedirect(s)
                 /\ pc[s] = "get_list" => ENABLED GetList(s)
                 /\ pc[s] = "post_redirect" => ENABLED PostRedirect(s)
                 /\ pc[s] = "post_check" => ENABLED PostCheck(s)
           /\ (served < MaxRequests /\ \E s \in Handlers : Over(s))
                => /\ ENABLED (\E s \in Handlers : GetStart(s))
                   /\ ENABLED (\E s \in Handlers : PostStart(s))

\* the second request stored a mapping and ended while the first still
\* waits in its check, at its timeout
C18_Witness ==
    /\ served = 2
    /\ pc[1] = "post_check" /\ waited[1] = CheckTimeout
    /\ pc[2] = "done" /\ wrote[2] # 0 /\ Statuses(2) = <<303>>

\* C19: every POST handler in flight ends its request: no handler stays in
\* a POST from some time on.
C19_PostEnds ==
    \A t \in Handlers : []<>(~(IsPost(t) /\ ~Over(t)))

\* a POST has ended by the timeout of its check
C19_Witness ==
    \E t \in Handlers :
        /\ IsPost(t) /\ pc[t] = "done"
        /\ exc[t] = "Timeout"
        /\ outbound[t][1].uri = UriY

\* C20: a POST answered 303 has stored its mapping before, so a GET for its
\* alias that begins afterwards finds it and is answered 303, with the URI
\* of that POST or of a later write for the alias.
C20_InsertBeforeRedirect ==
    /\ [](\A t \in Handlers :
             (IsPost(t) /\ Statuses(t) = <<303>>)
             => LET a == FirstSent(t, SHORTNAME)
                    u == FirstSent(t, LONGURI)
                IN  /\ a \in DOMAIN memory
                    /\ wrote[t] \in 1..Len(log)
                    /\ \/ memory[a] = u
                       \/ \E j \in (wrote[t] + 1)..Len(log) : log[j].alias = a)
    /\ [](\A g \in Handlers :
             (IsGet(g) /\ pc[g] = "done" /\ held[g] # {})
             => (Statuses(g) = <<303>> /\ resp[g][1].location \in held[g]))
    /\ [][ \A g, t \in Handlers :
             ( /\ Free(g) /\ served' = served + 1 /\ request'[g].method = "GET"
               /\ IsPost(t) /\ Statuses(t) = <<303>>
               /\ Unquote(Tail(request'[g].path)) = FirstSent(t, SHORTNAME) )
             => /\ pc'[g] = "get_redirect"
                /\ resp'[g] = <<>>
                /\ held'[g] = {memory[FirstSent(t, SHORTNAME)]} ]_vars

\* a GET has been redirected to the URI of a POST answered 303
C20_Witness ==
    \E g, t \in Handlers :
        /\ IsPost(t) /\ Statuses(t) = <<303>>
        /\ IsGet(g) /\ pc[g] = "done" /\ Statuses(g) = <<303>>
        /\ AskedName(g) = FirstSent(t, SHORTNAME)
        /\ resp[g][1].location = FirstSent(t, LONGURI)

====
